---- MODULE Spec2Model ----
(***************************************************************************)
(* Model of nbs/00_dl_101_pytorch_fastai.ipynb: the synthetic datasets,    *)
(* the PyTorch data loaders, the linear regression model, and the manual   *)
(* training / validation loop (train, validate, the epoch loops).          *)
(*                                                                         *)
(* Tensors hold floating point numbers.  A float is modelled as an integer *)
(* of the grid -FMax..FMax, or one of the three non-finite values PInf,    *)
(* NInf and NaN; arithmetic saturates to the infinities on overflow and    *)
(* follows IEEE 754 for the non-finite operands.  Tensors are float32 and  *)
(* saturate at FMax; the Python floats of the statistics are doubles,      *)
(* which hold every float32 and every sum of them the loop can form, and   *)
(* saturate at DMax.                                                       *)
(***************************************************************************)
EXTENDS Integers, Sequences, FiniteSets

(* ------------------------------ bounds --------------------------------- *)
\* largest finite float32 of the grid
FMax == 10000
\* largest training dataset (n of linear_function_dataset)
MaxN == 3
\* largest batch size
MaxBs == 2
\* number of calls of train / validate a run makes
MaxCalls == 4

(* ------------------------- program constants --------------------------- *)
\* a = 2, b = 3: the coefficients of the sampled linear function
A_TRUE == 2
B_TRUE == 3

(* ------------------------- floating point ------------------------------ *)
\* largest finite double
DMax == 1000 * FMax
PInf == DMax + 1
NInf == 0 - (DMax + 1)
NaN == DMax + 2
\* p.grad of a parameter no backward pass has reached yet
None == DMax + 3

IsFinite(v) == v >= 0 - DMax /\ v <= DMax
IsNaN(v) == v = NaN
IsInf(v) == v = PInf \/ v = NInf

\* an exact result brought back to the floats whose largest is max
SatW(n, max) == IF n > max THEN PInf ELSE IF n < 0 - max THEN NInf ELSE n
Sat(n) == SatW(n, FMax)

FNeg(v) == IF IsNaN(v) THEN NaN ELSE 0 - v

AddW(u, v, max) ==
    IF IsNaN(u) \/ IsNaN(v) THEN NaN
    ELSE IF IsInf(u) THEN (IF IsInf(v) /\ v # u THEN NaN ELSE u)
    ELSE IF IsInf(v) THEN v
    ELSE SatW(u + v, max)

\* float32 addition (tensors)
FAdd(u, v) == AddW(u, v, FMax)
\* double addition (Python floats)
DAdd(u, v) == AddW(u, v, DMax)

FSub(u, v) == FAdd(u, FNeg(v))

FMul(u, v) ==
    IF IsNaN(u) \/ IsNaN(v) THEN NaN
    ELSE IF IsInf(u) \/ IsInf(v)
         THEN (IF u = 0 \/ v = 0 THEN NaN
               ELSE IF (u > 0) = (v > 0) THEN PInf ELSE NInf)
    ELSE Sat(u * v)

\* division of a float by a positive count, rounded down to the grid
FDivN(u, n) == IF IsFinite(u) THEN u \div n ELSE u

RECURSIVE FSum(_)
FSum(s) == IF s = <<>> THEN 0 ELSE FAdd(FSum(SubSeq(s, 1, Len(s) - 1)), s[Len(s)])

RECURSIVE DSum(_)
DSum(s) == IF s = <<>> THEN 0 ELSE DAdd(DSum(SubSeq(s, 1, Len(s) - 1)), s[Len(s)])

(* ------------------------------ datasets ------------------------------- *)
\* torch.randn: the i-th draw of the generator seeded with s
Randn(s, i) == ((s + 3 * i) % 4) - 1

\* torch.randn(n, m) from the draws after the first off ones: a tensor of
\* shape (n, m), a sequence of n rows of m values
RandnTensor(n, m, s, off) ==
    [i \in 1..n |-> [j \in 1..m |-> Randn(s, off + (i - 1) * m + j)]]

\* torch.rand(n, 1)*20: the i-th uniform draw, scaled; the draws are taken
\* around the middle of the range
Rand20(s, i) == 8 + ((s + i) % 4)

\* the shape of a tensor of two dimensions
Shape(t) == <<Len(t), IF t = <<>> THEN 0 ELSE Len(t[1])>>

\* TensorDataset(x, y): item i is the pair (x[i], y[i]) of the rows of the
\* two tensors
TensorDataset(x, y) == [i \in 1..Len(x) |-> <<x[i], y[i]>>]

\* ds.tensors: the two tensors of a dataset
Tensors(ds) == <<[i \in 1..Len(ds) |-> ds[i][1]], [i \in 1..Len(ds) |-> ds[i][2]]>>

\* variant of linear_function_dataset: the noise is drawn as randn(n), a
\* tensor of one dimension, so that the sum broadcasts y to shape (n, n)
linear_function_dataset_NoiseVector(a, b, n, s) ==
    LET x == RandnTensor(n, 1, s, 0)
        y == [i \in 1..n |-> [j \in 1..n |->
                 FAdd(FAdd(FMul(a, x[i][1]), b), Randn(s, n + j) \div 2)]]
    IN  TensorDataset(x, y)

\* linear_function_dataset(a, b, n): x = randn(n, 1),
\* y = a*x + b + 0.1*randn(n, 1); returns TensorDataset(x, y).
\* The noise term is the second block of n draws, scaled down to the grid.
linear_function_dataset(a, b, n, s) ==
    LET x == RandnTensor(n, 1, s, 0)
        eps == RandnTensor(n, 1, s, n)
        y == [i \in 1..n |-> [j \in 1..1 |->
                 FAdd(FAdd(FMul(a, x[i][j]), b), eps[i][j] \div 2)]]
    IN  TensorDataset(x, y)

\* x**k
RECURSIVE FPow(_, _)
FPow(u, k) == IF k = 0 THEN 1 ELSE FMul(FPow(u, k - 1), u)

\* y = (-1/100)*x**7 -x**4 -2*x**2 -4*x + 1
Polynomial(u) ==
    FAdd(FSub(FSub(FSub(FDivN(FNeg(FPow(u, 7)), 100), FPow(u, 4)),
                   FMul(2, FPow(u, 2))),
              FMul(4, u)),
         1)

\* nonlinear_function_dataset(n): x = rand(n, 1)*20 - 10,
\* y = Polynomial(x) + 0.1*randn(n, 1); returns TensorDataset(x, y)
nonlinear_function_dataset(n, s) ==
    LET x == [i \in 1..n |-> [j \in 1..1 |-> FSub(Rand20(s, i), 10)]]
        eps == RandnTensor(n, 1, s, n)
        y == [i \in 1..n |-> [j \in 1..1 |->
                 FAdd(Polynomial(x[i][j]), eps[i][j] \div 2)]]
    IN  TensorDataset(x, y)

(* ----------------------------- data loaders ---------------------------- *)
\* torch.utils.data.DataLoader(ds, batch_size=bs, shuffle=...): the record
\* of its arguments
DataLoader(ds, batch_size, shuffle) ==
    [ds |-> ds, batch_size |-> batch_size, shuffle |-> shuffle]

\* variant of DropLast: an incomplete last batch is dropped
DropLast_True == TRUE

\* the loaders are built without a drop_last argument: its default
DropLast == FALSE

Perms(n) == {p \in [1..n -> 1..n] : \A i, j \in 1..n : p[i] = p[j] => i = j}

\* the index orders the loader's sampler can produce in one pass:
\* a random permutation when shuffling, else the dataset's own order
Sampler(dl) ==
    IF dl.shuffle THEN Perms(Len(dl.ds)) ELSE {[i \in 1..Len(dl.ds) |-> i]}

\* the batch sampler: indices are appended to the current batch, a batch is
\* emitted when it reaches batch_size, and the rest is emitted at the end
\* unless drop_last
RECURSIVE BatchSampler(_, _, _, _)
BatchSampler(idxs, batch, batch_size, drop_last) ==
    IF idxs = <<>>
    THEN (IF Len(batch) > 0 /\ ~drop_last THEN <<batch>> ELSE <<>>)
    ELSE LET b2 == Append(batch, Head(idxs))
         IN  IF Len(b2) = batch_size
             THEN <<b2>> \o BatchSampler(Tail(idxs), <<>>, batch_size, drop_last)
             ELSE BatchSampler(Tail(idxs), b2, batch_size, drop_last)

\* iter(dl): the batch sequences (each batch a sequence of dataset indices)
\* one pass over the loader may yield
Iter(dl) == {BatchSampler(p, <<>>, dl.batch_size, DropLast) : p \in Sampler(dl)}

\* the (x, y) tensors of a batch of indices
BatchX(ds, batch) == [j \in 1..Len(batch) |-> ds[batch[j]][1][1]]
BatchY(ds, batch) == [j \in 1..Len(batch) |-> ds[batch[j]][2][1]]

(* ------------------------- model, loss, optimizer ---------------------- *)
\* LinRegModel.forward: a*x + b, elementwise
Forward(p, x) == [j \in 1..Len(x) |-> FAdd(FMul(p.a, x[j]), p.b)]

\* nn.MSELoss(): mean of the squared differences
MSELoss(out, y) ==
    FDivN(FSum([j \in 1..Len(out) |->
                    FMul(FSub(out[j], y[j]), FSub(out[j], y[j]))]), Len(out))

\* d loss / d output[j] = 2 * (output[j] - y[j]) / n
DLoss(out, y) ==
    [j \in 1..Len(out) |-> FDivN(FMul(2, FSub(out[j], y[j])), Len(out))]

\* the gradients loss.backward() computes for a and b
Gradients(x, out, y) ==
    [a |-> FSum([j \in 1..Len(x) |-> FMul(DLoss(out, y)[j], x[j])]),
     b |-> FSum(DLoss(out, y))]

\* autograd accumulates into p.grad (a first gradient replaces None)
Accumulate(g, d) == IF g = None THEN d ELSE FAdd(g, d)

\* faulty variant of ZeroGrad: the gradients are left as they are
ZeroGrad_Keep(g) == g

\* opt_func.zero_grad(): every gradient that exists is set to zero
ZeroGrad(g) == IF g = None THEN None ELSE 0

\* what zero_grad leaves behind: no gradient, or a zero one
IsZeroGrad(g) == g = None \/ g = 0

\* faulty variant of SGDStep: the learning rate is not applied
SGDStep_IgnoresRate(p, g, rate) == IF g = None THEN p ELSE FAdd(p, FNeg(g))

\* torch.optim.SGD.step for one parameter: p.add_(grad, alpha=-lr);
\* a parameter without gradient is skipped
SGDStep(p, g, rate) == IF g = None THEN p ELSE FAdd(p, FMul(FNeg(rate), g))

(* ------------------------------ printing ------------------------------- *)
\* f'{total/count : .2f}': the quotient in hundredths, rounded half to even;
\* inf and nan print as such
Fmt2(total, count) ==
    IF IsNaN(total) THEN <<"nan", 0>>
    ELSE IF IsInf(total) THEN <<"inf", IF total > 0 THEN 1 ELSE 0 - 1>>
    ELSE LET q == (100 * total) \div count
             r == (100 * total) % count
         IN  <<"num", IF 2 * r > count THEN q + 1
                      ELSE IF 2 * r = count THEN q + (q % 2)
                      ELSE q>>

(* -------------------------------- state -------------------------------- *)
VARIABLES
    train_ds,           \* the training TensorDataset
    valid_ds,           \* the validation TensorDataset
    bs,                 \* batch size of both loaders
    params,             \* model.a, model.b
    grad,               \* model.a.grad, model.b.grad
    lr,                 \* learning rate of opt_func
    pc,                 \* position of the running cell
    caller,             \* "cell": called directly; "train_loop": from the
                        \* epoch loop that trains; "loop": from the epoch
                        \* loop that trains and validates
    epoch,              \* loop variable of the epoch loop
    n_epochs,           \* its number of epochs
    arg_dl,             \* the data loader argument of the current call
    epoch_idx,          \* argument epoch_idx of train
    batches,            \* the batches of the pass under way
    batch_idx,          \* index of the current batch in it
    output,             \* local output
    loss,               \* local loss
    running_loss,       \* local running_loss
    batches_processed,  \* local batches_processed (train)
    total_batches,      \* local total_batches (validate)
    printed,            \* the lines the running cell has printed
    raised,             \* the exception or warning the last call surfaced
    retval,             \* the value the last call returned
    calls,              \* calls of train and validate started so far
    stepped,            \* the batches opt_func.step() was called for, in order
    losses,             \* loss.item() of each batch of the current call
    entry,              \* params, grad and lr when the current call started
    last_valid          \* the validation loss printed last, if no optimizer
                        \* step was taken since

vars == <<train_ds, valid_ds, bs, params, grad, lr, pc, caller, epoch, n_epochs,
          arg_dl, epoch_idx, batches, batch_idx, output, loss, running_loss,
          batches_processed, total_batches, printed, raised, retval, calls,
          stepped, losses, entry, last_valid>>

data == <<train_ds, valid_ds, bs, lr>>
driver == <<caller, epoch, n_epochs>>
locals == <<output, loss, running_loss, batches_processed, total_batches,
            stepped, losses>>

\* return values: None, or a float
RetNone == [kind |-> "None", value |-> 0]
RetUnset == [kind |-> "unset", value |-> 0]
RetFloat(v) == [kind |-> "float", value |-> v]

\* the two loaders of the notebook, and a loader over an empty dataset
train_dl == DataLoader(train_ds, bs, TRUE)
valid_dl == DataLoader(valid_ds, bs, FALSE)
empty_dl == DataLoader(<<>>, bs, FALSE)

\* no line
NoLine == <<"none", 0>>

\* inputs
BatchSizes == 1..MaxBs
LearningRates == {0, 1}
Seeds == {0, 1}
InitParams == {[a |-> 1, b |-> 0], [a |-> FMax, b |-> 0]}
ValidSizes == {2}
NonlinearSeeds == {0}
EpochCounts == 1..2

Init ==
    /\ \E n \in 1..MaxN, s \in Seeds :
          \/ /\ train_ds = linear_function_dataset(A_TRUE, B_TRUE, n, s)
             /\ \E m \in ValidSizes :
                   valid_ds = linear_function_dataset(A_TRUE, B_TRUE, m, 1)
          \/ /\ s \in NonlinearSeeds
             /\ train_ds = nonlinear_function_dataset(n, s)
             /\ \E m \in ValidSizes : valid_ds = nonlinear_function_dataset(m, 1)
    /\ bs \in BatchSizes
    /\ params \in InitParams
    /\ grad = [a |-> None, b |-> None]
    /\ lr \in LearningRates
    /\ pc = "idle"
    /\ caller = "cell"
    /\ epoch = 0
    /\ n_epochs = 0
    /\ arg_dl = empty_dl
    /\ epoch_idx = 0
    /\ batches = <<>>
    /\ batch_idx = 0
    /\ output = <<>>
    /\ loss = 0
    /\ running_loss = 0
    /\ batches_processed = 0
    /\ total_batches = 0
    /\ printed = <<>>
    /\ raised = "None"
    /\ retval = RetUnset
    /\ calls = 0
    /\ stepped = <<>>
    /\ losses = <<>>
    /\ entry = [params |-> params, grad |-> grad, lr |-> lr]
    /\ last_valid = NoLine

(* -------------------------------- train --------------------------------- *)
Snapshot == [params |-> params, grad |-> grad, lr |-> lr]

\* train(model, device, d, loss_func, opt_func, e) is entered: the locals are
\* initialised and the for loop asks the loader for a pass over its batches
EnterTrain(d, e) ==
    /\ calls' = calls + 1
    /\ arg_dl' = d
    /\ epoch_idx' = e
    /\ running_loss' = 0
    /\ batches_processed' = 0
    /\ batches' \in Iter(d)
    /\ batch_idx' = 1
    /\ pc' = IF batches' = <<>> THEN "t_print" ELSE "t_zero_grad"
    /\ stepped' = <<>>
    /\ losses' = <<>>
    /\ entry' = Snapshot
    /\ raised' = "None"
    /\ retval' = RetUnset
    /\ UNCHANGED <<data, params, grad, output, loss, total_batches, last_valid>>

\* opt_func.zero_grad()
TrainZeroGrad ==
    /\ pc = "t_zero_grad"
    /\ grad' = [a |-> ZeroGrad(grad.a), b |-> ZeroGrad(grad.b)]
    /\ pc' = "t_forward"
    /\ UNCHANGED <<data, params, driver, arg_dl, epoch_idx,
                   batches, batch_idx, locals, printed, raised, retval, calls,
                   entry, last_valid>>

\* output = model(x); loss = loss_func(output, y)
TrainForward ==
    /\ pc = "t_forward"
    /\ output' = Forward(params, BatchX(arg_dl.ds, batches[batch_idx]))
    /\ loss' = MSELoss(output', BatchY(arg_dl.ds, batches[batch_idx]))
    /\ pc' = "t_backward"
    /\ UNCHANGED <<data, params, grad, driver, arg_dl,
                   epoch_idx, batches, batch_idx, running_loss,
                   batches_processed, total_batches, stepped, losses,
                   printed, raised, retval, calls, entry, last_valid>>

\* loss.backward()
TrainBackward ==
    /\ pc = "t_backward"
    /\ LET g == Gradients(BatchX(arg_dl.ds, batches[batch_idx]), output,
                          BatchY(arg_dl.ds, batches[batch_idx]))
       IN  grad' = [a |-> Accumulate(grad.a, g.a), b |-> Accumulate(grad.b, g.b)]
    /\ pc' = "t_step"
    /\ UNCHANGED <<data, params, driver, arg_dl, epoch_idx,
                   batches, batch_idx, locals, printed, raised, retval, calls,
                   entry, last_valid>>

\* opt_func.step()
TrainStep ==
    /\ pc = "t_step"
    /\ params' = [a |-> SGDStep(params.a, grad.a, lr),
                  b |-> SGDStep(params.b, grad.b, lr)]
    /\ stepped' = Append(stepped, batch_idx)
    /\ last_valid' = NoLine
    /\ pc' = "t_stats"
    /\ UNCHANGED <<data, grad, driver, arg_dl, epoch_idx,
                   batches, batch_idx, output, loss, running_loss,
                   batches_processed, total_batches, losses, printed, raised,
                   retval, calls, entry>>

\* faulty variant of TrainStats: running_loss is overwritten, not added to
TrainStats_Overwrites ==
    /\ pc = "t_stats"
    /\ running_loss' = loss
    /\ batches_processed' = batches_processed + 1
    /\ losses' = Append(losses, loss)
    /\ IF batch_idx < Len(batches)
       THEN batch_idx' = batch_idx + 1 /\ pc' = "t_zero_grad"
       ELSE batch_idx' = batch_idx /\ pc' = "t_print"
    /\ UNCHANGED <<data, params, grad, driver, arg_dl,
                   epoch_idx, batches, output, loss, total_batches, stepped,
                   printed, raised, retval, calls, entry, last_valid>>

\* variant of TrainStats that halts the loop at the first non-finite loss
TrainStats_HaltsOnDivergence ==
    /\ pc = "t_stats"
    /\ running_loss' = DAdd(running_loss, loss)
    /\ batches_processed' = batches_processed + 1
    /\ losses' = Append(losses, loss)
    /\ IF batch_idx < Len(batches) /\ IsFinite(loss)
       THEN batch_idx' = batch_idx + 1 /\ pc' = "t_zero_grad"
       ELSE batch_idx' = batch_idx /\ pc' = "t_print"
    /\ UNCHANGED <<data, params, grad, driver, arg_dl,
                   epoch_idx, batches, output, loss, total_batches, stepped,
                   printed, raised, retval, calls, entry, last_valid>>

\* faulty variant of TrainStats: the loop advances by two batches
TrainStats_SkipsBatch ==
    /\ pc = "t_stats"
    /\ running_loss' = DAdd(running_loss, loss)
    /\ batches_processed' = batches_processed + 1
    /\ losses' = Append(losses, loss)
    /\ IF batch_idx + 1 < Len(batches)
       THEN batch_idx' = batch_idx + 2 /\ pc' = "t_zero_grad"
       ELSE batch_idx' = batch_idx /\ pc' = "t_print"
    /\ UNCHANGED <<data, params, grad, driver, arg_dl,
                   epoch_idx, batches, output, loss, total_batches, stepped,
                   printed, raised, retval, calls, entry, last_valid>>

\* variant of TrainStats: the loss that is added is evaluated again, with the
\* parameters the optimizer step has left
TrainStats_LossAfterStep ==
    /\ pc = "t_stats"
    /\ LET l == MSELoss(Forward(params, BatchX(arg_dl.ds, batches[batch_idx])),
                        BatchY(arg_dl.ds, batches[batch_idx]))
       IN  /\ running_loss' = DAdd(running_loss, l)
           /\ losses' = Append(losses, l)
    /\ batches_processed' = batches_processed + 1
    /\ IF batch_idx < Len(batches)
       THEN batch_idx' = batch_idx + 1 /\ pc' = "t_zero_grad"
       ELSE batch_idx' = batch_idx /\ pc' = "t_print"
    /\ UNCHANGED <<data, params, grad, driver, arg_dl,
                   epoch_idx, batches, output, loss, total_batches, stepped,
                   printed, raised, retval, calls, entry, last_valid>>

\* running_loss += loss.item(); batches_processed += 1; then the for loop
\* takes the next batch, or ends
TrainStats ==
    /\ pc = "t_stats"
    /\ running_loss' = DAdd(running_loss, loss)
    /\ batches_processed' = batches_processed + 1
    /\ losses' = Append(losses, loss)
    /\ IF batch_idx < Len(batches)
       THEN batch_idx' = batch_idx + 1 /\ pc' = "t_zero_grad"
       ELSE batch_idx' = batch_idx /\ pc' = "t_print"
    /\ UNCHANGED <<data, params, grad, driver, arg_dl,
                   epoch_idx, batches, output, loss, total_batches, stepped,
                   printed, raised, retval, calls, entry, last_valid>>

\* print(f'Train loss [Epoch {epoch_idx}]: {running_loss/batches_processed : .2f})')
\* and the implicit return None; the division raises ZeroDivisionError when no
\* batch was processed, which ends the running cell
TrainPrint ==
    /\ pc = "t_print"
    /\ IF batches_processed = 0
       THEN /\ raised' = "ZeroDivisionError"
            /\ pc' = "idle"
            /\ caller' = "cell"
            /\ epoch' = 0
            /\ UNCHANGED <<printed, retval>>
       ELSE /\ printed' = Append(printed,
                    <<"Train", epoch_idx, Fmt2(running_loss, batches_processed)>>)
            /\ retval' = RetNone
            /\ pc' = "t_ret"
            /\ UNCHANGED <<raised, caller, epoch>>
    /\ UNCHANGED <<data, params, grad, n_epochs, arg_dl, epoch_idx,
                   batches, batch_idx, locals, calls, entry, last_valid>>

(* ------------------------------- validate ------------------------------- *)
\* validate(model, device, d) is entered; its for loop iterates the global
\* valid_dl
EnterValidate(d) ==
    /\ calls' = calls + 1
    /\ arg_dl' = d
    /\ running_loss' = 0
    /\ total_batches' = 0
    /\ batches' \in Iter(valid_dl)
    /\ batch_idx' = 1
    /\ pc' = IF batches' = <<>> THEN "v_print" ELSE "v_batch"
    /\ losses' = <<>>
    /\ entry' = Snapshot
    /\ raised' = "None"
    /\ retval' = RetUnset
    /\ UNCHANGED <<data, params, grad, epoch_idx, output, loss,
                   batches_processed, stepped, last_valid>>

\* faulty variant of ValidateBatch: the iteration also applies an optimizer
\* step with the gradients at hand
ValidateBatch_Steps ==
    /\ pc = "v_batch"
    /\ output' = Forward(params, BatchX(valid_dl.ds, batches[batch_idx]))
    /\ loss' = MSELoss(output', BatchY(valid_dl.ds, batches[batch_idx]))
    /\ params' = [a |-> SGDStep(params.a, grad.a, lr),
                  b |-> SGDStep(params.b, grad.b, lr)]
    /\ running_loss' = DAdd(running_loss, loss')
    /\ total_batches' = total_batches + 1
    /\ losses' = Append(losses, loss')
    /\ IF batch_idx < Len(batches)
       THEN batch_idx' = batch_idx + 1 /\ pc' = "v_batch"
       ELSE batch_idx' = batch_idx /\ pc' = "v_print"
    /\ UNCHANGED <<data, grad, driver, arg_dl,
                   epoch_idx, batches, batches_processed, stepped, printed,
                   raised, retval, calls, entry, last_valid>>

\* one iteration under torch.no_grad(): output = model(x);
\* loss = loss_func(output, y); running_loss += loss.item(); total_batches += 1
ValidateBatch ==
    /\ pc = "v_batch"
    /\ output' = Forward(params, BatchX(valid_dl.ds, batches[batch_idx]))
    /\ loss' = MSELoss(output', BatchY(valid_dl.ds, batches[batch_idx]))
    /\ running_loss' = DAdd(running_loss, loss')
    /\ total_batches' = total_batches + 1
    /\ losses' = Append(losses, loss')
    /\ IF batch_idx < Len(batches)
       THEN batch_idx' = batch_idx + 1 /\ pc' = "v_batch"
       ELSE batch_idx' = batch_idx /\ pc' = "v_print"
    /\ UNCHANGED <<data, params, grad, driver, arg_dl,
                   epoch_idx, batches, batches_processed, stepped, printed,
                   raised, retval, calls, entry, last_valid>>

\* print(f'Valid loss: {running_loss/total_batches : .2f}'), return None
ValidatePrint ==
    /\ pc = "v_print"
    /\ IF total_batches = 0
       THEN /\ raised' = "ZeroDivisionError"
            /\ pc' = "idle"
            /\ caller' = "cell"
            /\ epoch' = 0
            /\ UNCHANGED <<printed, retval, last_valid>>
       ELSE /\ printed' = Append(printed,
                    <<"Valid", 0, Fmt2(running_loss, total_batches)>>)
            /\ last_valid' = Fmt2(running_loss, total_batches)
            /\ retval' = RetNone
            /\ pc' = "v_ret"
            /\ UNCHANGED <<raised, caller, epoch>>
    /\ UNCHANGED <<data, params, grad, n_epochs, arg_dl, epoch_idx,
                   batches, batch_idx, locals, calls, entry>>

(* --------------------------- the notebook cells ------------------------- *)
\* the running cell is over: the frame of the call it made last is gone, and
\* the notebook waits for the next cell
EndOfCell ==
    /\ pc' = "idle"
    /\ caller' = "cell"
    /\ epoch' = 0
    /\ arg_dl' = empty_dl
    /\ epoch_idx' = 0
    /\ batches' = <<>>
    /\ batch_idx' = 0
    /\ output' = <<>>
    /\ loss' = 0
    /\ running_loss' = 0
    /\ batches_processed' = 0
    /\ total_batches' = 0
    /\ stepped' = <<>>
    /\ losses' = <<>>
    /\ entry' = Snapshot
    /\ UNCHANGED <<data, params, grad, printed, raised, retval, calls, last_valid>>

\* a cell calls the exported train on a loader of its choice, here one that
\* does not shuffle, or one without batches
CallTrain ==
    /\ pc = "idle"
    /\ calls < MaxCalls
    /\ \E d \in {valid_dl, empty_dl} : EnterTrain(d, 1)
    /\ caller' = "cell"
    /\ printed' = <<>>
    /\ UNCHANGED <<epoch, n_epochs>>

\* for epoch in range(1, n_epochs+1): train(model, device, train_dl, ..., epoch),
\* the first iteration
TrainLoopStart ==
    /\ pc = "idle"
    /\ \E e \in EpochCounts :
          /\ calls + e <= MaxCalls
          /\ n_epochs' = e
    /\ epoch' = 1
    /\ caller' = "train_loop"
    /\ printed' = <<>>
    /\ EnterTrain(train_dl, 1)

\* train has returned in the loop that trains: the next epoch, or the end
TrainLoopNext ==
    /\ pc = "t_ret"
    /\ caller = "train_loop"
    /\ IF epoch < n_epochs
       THEN /\ epoch' = epoch + 1
            /\ EnterTrain(train_dl, epoch + 1)
            /\ UNCHANGED <<caller, n_epochs, printed>>
       ELSE /\ EndOfCell
            /\ UNCHANGED n_epochs

\* a cell calls validate on a loader of its choice:
\* validate(model, device, valid_dl), or another loader as dl
CallValidate ==
    /\ pc = "idle"
    /\ calls < MaxCalls
    /\ \E d \in {valid_dl, train_dl, empty_dl} : EnterValidate(d)
    /\ caller' = "cell"
    /\ printed' = <<>>
    /\ UNCHANGED <<epoch, n_epochs>>

\* the call of a cell has returned: the cell is over
CellEnd ==
    /\ pc \in {"t_ret", "v_ret"}
    /\ caller = "cell"
    /\ EndOfCell
    /\ UNCHANGED n_epochs

\* for epoch in range(1, n_epochs +1): train(...); validate(...), the first
\* train
LoopStart ==
    /\ pc = "idle"
    /\ \E e \in EpochCounts :
          /\ calls + 2 * e <= MaxCalls
          /\ n_epochs' = e
    /\ epoch' = 1
    /\ caller' = "loop"
    /\ printed' = <<>>
    /\ EnterTrain(train_dl, 1)

\* train has returned in the loop body: validate(model, device, valid_dl)
LoopValidate ==
    /\ pc = "t_ret"
    /\ caller = "loop"
    /\ EnterValidate(valid_dl)
    /\ UNCHANGED <<driver, printed>>

\* faulty variant of LoopNext: the loop runs one epoch too many
LoopNext_OneMore ==
    /\ pc = "v_ret"
    /\ caller = "loop"
    /\ IF epoch <= n_epochs
       THEN /\ epoch' = epoch + 1
            /\ EnterTrain(train_dl, epoch + 1)
            /\ UNCHANGED <<caller, n_epochs, printed>>
       ELSE /\ EndOfCell
            /\ UNCHANGED n_epochs

\* validate has returned in the loop body: the next epoch's train, or the
\* end of the loop
LoopNext ==
    /\ pc = "v_ret"
    /\ caller = "loop"
    /\ IF epoch < n_epochs
       THEN /\ epoch' = epoch + 1
            /\ EnterTrain(train_dl, epoch + 1)
            /\ UNCHANGED <<caller, n_epochs, printed>>
       ELSE /\ EndOfCell
            /\ UNCHANGED n_epochs

Next ==
    \/ CallTrain
    \/ TrainLoopStart
    \/ TrainLoopNext
    \/ CallValidate
    \/ CellEnd
    \/ LoopStart
    \/ LoopValidate
    \/ LoopNext
    \/ TrainZeroGrad
    \/ TrainForward
    \/ TrainBackward
    \/ TrainStep
    \/ TrainStats
    \/ TrainPrint
    \/ ValidateBatch
    \/ ValidatePrint

Spec == Init /\ [][Next]_vars

(* ------------------------------ properties ------------------------------ *)
TrainPcs == {"t_zero_grad", "t_forward", "t_backward", "t_step", "t_stats",
             "t_print", "t_ret"}
ValidPcs == {"v_batch", "v_print", "v_ret"}

\* the tensors of the batch the training loop is at
CurX == BatchX(arg_dl.ds, batches[batch_idx])
CurY == BatchY(arg_dl.ds, batches[batch_idx])

\* C1: when a call of train over k >= 1 batches ends, opt_func.step() was
\* called exactly k times, batches_processed is k, and the batches stepped
\* for are the batches 1..k of one pass over the loader, each once, in order.
C1_EveryBatchOnce ==
    pc = "t_ret" =>
        /\ batches \in Iter(arg_dl)
        /\ Len(batches) >= 1
        /\ Len(stepped) = Len(batches)
        /\ batches_processed = Len(batches)
        /\ stepped = [i \in 1..Len(batches) |-> i]

C1_Witness ==
    /\ pc = "t_ret"
    /\ Len(batches) = 3
    /\ stepped = <<1, 2, 3>>
    /\ batches_processed = 3

\* C2: whenever loss.backward() is about to run, the gradient of every
\* parameter is zero (or absent), and so the gradient opt_func.step() uses is
\* the gradient of the current batch alone.
C2_GradZeroAtBackward ==
    /\ pc = "t_backward" => IsZeroGrad(grad.a) /\ IsZeroGrad(grad.b)
    /\ pc = "t_step" => grad = Gradients(CurX, output, CurY)

\* a later batch of a second epoch, after a validation pass, with gradients
\* of the previous epoch left at the start of the call
C2_Witness ==
    /\ pc = "t_backward"
    /\ batch_idx >= 2
    /\ epoch = 2
    /\ grad.a = 0
    /\ ~IsZeroGrad(entry.grad.a)
    /\ \E i \in 1..Len(printed) : printed[i][1] = "Valid"

\* C3: validate is read-only: during and after a call of validate the
\* parameters, the gradients and the optimizer's learning rate are those the
\* call started with; and the loss a call of validate is about to print is
\* the loss the previous call of validate printed, when no optimizer step was
\* taken in between.
C3_ValidateReadOnly ==
    /\ pc \in ValidPcs =>
          params = entry.params /\ grad = entry.grad /\ lr = entry.lr
    /\ (pc = "v_print" /\ total_batches >= 1 /\ last_valid # NoLine) =>
          Fmt2(running_loss, total_batches) = last_valid

\* a second validation in a row is about to print, after training has moved
\* the parameters and left gradients behind
C3_Witness ==
    /\ pc = "v_print"
    /\ total_batches = 2
    /\ last_valid # NoLine
    /\ last_valid[1] = "num"
    /\ Fmt2(running_loss, total_batches) = last_valid
    /\ lr = 1
    /\ params # [a |-> 1, b |-> 0]
    /\ ~IsZeroGrad(grad.a)

\* number of lines the epoch loop has printed when control is at pc
LoopDone ==
    IF pc \in {"t_zero_grad", "t_forward", "t_backward", "t_step", "t_stats",
               "t_print"}
    THEN 2 * (epoch - 1)
    ELSE IF pc \in {"t_ret", "v_batch", "v_print"} THEN 2 * epoch - 1
    ELSE 2 * epoch

C5_ReturnsMean ==
    pc \in {"t_ret", "v_ret"} =>
        retval = RetFloat(FDivN(DSum(losses), Len(losses)))

\* C5, amended: train over k >= 1 batches prints the sum of the k per-batch
\* losses divided by k, to two decimals, and returns None; validate does the
\* same over the batches of valid_dl, whose losses are those of the model's
\* parameters on each batch.
C5_PrintsMean ==
    /\ pc = "t_ret" =>
          /\ Len(batches) >= 1
          /\ Len(losses) = Len(batches)
          /\ printed[Len(printed)] =
                <<"Train", epoch_idx, Fmt2(DSum(losses), Len(batches))>>
          /\ retval = RetNone
    /\ pc = "v_ret" =>
          /\ batches \in Iter(valid_dl)
          /\ Len(batches) >= 1
          /\ losses = [j \in 1..Len(batches) |->
                MSELoss(Forward(params, BatchX(valid_ds, batches[j])),
                        BatchY(valid_ds, batches[j]))]
          /\ printed[Len(printed)] =
                <<"Valid", 0, Fmt2(DSum(losses), Len(batches))>>
          /\ retval = RetNone

\* a training pass of three batches with different finite losses, whose mean
\* is not a whole number
C5_Witness ==
    /\ pc = "t_ret"
    /\ Len(losses) = 3
    /\ losses[1] # losses[2]
    /\ \A j \in 1..3 : IsFinite(losses[j])
    /\ DSum(losses) % 3 # 0

\* the last call has ended: it returned, or raised
CallEnded == pc \in {"t_ret", "v_ret"} \/ raised # "None"

\* C6 as stated: a call of train or validate on a loader without batches
\* fails with InvalidInputError, and leaves the parameters unchanged.
C6_EmptyFailsInvalidInput ==
    (CallEnded /\ arg_dl.ds = <<>>) =>
        /\ raised = "InvalidInputError"
        /\ params = entry.params

\* C7 as stated: with a learning rate of zero no step of the program changes
\* the parameters.
C7_ZeroLrFreezes == [][lr = 0 => params' = params]_vars

\* C7, amended: with a learning rate of zero the parameters are unchanged by
\* every step of the program, the optimizer step included, as long as the
\* gradients the optimizer step uses are finite.
C7_ZeroLrFiniteGrad ==
    [][(/\ lr = 0
        /\ pc = "t_step" => IsFinite(grad.a) /\ IsFinite(grad.b))
       => params' = params]_vars

\* an optimizer step with zero learning rate and finite, non-zero gradients
\* has been taken
C7_Witness ==
    /\ lr = 0
    /\ pc = "t_stats"
    /\ IsFinite(grad.a) /\ grad.a # 0
    /\ IsFinite(grad.b) /\ grad.b # 0
    /\ params = entry.params
    /\ batch_idx >= 2

\* the loader whose pass is under way, or was last made
PassDL == IF pc \in TrainPcs THEN arg_dl ELSE valid_dl

Ceil(n, b) == (n + b - 1) \div b

\* C8: a pass over a loader of N >= 1 pairs with batch size B has ceil(N/B)
\* batches, which hold every one of the N pairs exactly once; all batches
\* have B pairs but the last, which has N - B*(ceil(N/B) - 1).
C8_BatchCount ==
    (pc # "idle" /\ Len(PassDL.ds) >= 1) =>
        LET N == Len(PassDL.ds)
            B == PassDL.batch_size
            K == Ceil(N, B)
        IN  /\ Len(batches) = K
            /\ \A i \in 1..N :
                  Cardinality({kj \in (1..K) \X (1..B) :
                      /\ kj[2] <= Len(batches[kj[1]])
                      /\ batches[kj[1]][kj[2]] = i}) = 1
            /\ \A k \in 1..(K - 1) : Len(batches[k]) = B
            /\ Len(batches[K]) = N - B * (K - 1)

\* a shuffled pass over three pairs in batches of two: the last batch has one
C8_Witness ==
    /\ pc = "t_forward"
    /\ Len(arg_dl.ds) = 3
    /\ arg_dl.batch_size = 2
    /\ arg_dl.shuffle
    /\ batch_idx = 2
    /\ Len(batches[2]) = 1
    /\ batches[1] # <<1, 2>>

\* a batch of the current training call had a non-finite loss
Diverged == \E j \in 1..Len(losses) : ~IsFinite(losses[j])

\* C10 as stated: a training call in which a loss became non-finite reports
\* a DivergenceWarning to its caller.
C10_WarnsOnDivergence ==
    (pc = "t_ret" /\ Diverged) => raised = "DivergenceWarning"

\* C10, amended: a training call in which a loss became non-finite raises
\* nothing and does not halt or repair anything: the step makes every
\* parameter with a non-finite gradient non-finite, and the call ends having
\* stepped for every batch, prints a non-finite mean and returns None.
C10_ContinuesSilently ==
    /\ (pc \in TrainPcs /\ Diverged) => raised = "None"
    /\ pc = "t_stats" =>
          /\ ~IsFinite(grad.a) => ~IsFinite(params.a)
          /\ ~IsFinite(grad.b) => ~IsFinite(params.b)
    /\ (pc = "t_ret" /\ Diverged) =>
          /\ batches_processed = Len(batches)
          /\ stepped = [i \in 1..Len(batches) |-> i]
          /\ printed[Len(printed)][3][1] \in {"inf", "nan"}
          /\ retval = RetNone

\* a call of three batches whose first loss was non-finite has ended
C10_Witness ==
    /\ pc = "t_ret"
    /\ Len(losses) = 3
    /\ ~IsFinite(losses[1])
    /\ ~IsFinite(params.a)

(* C11 *)
\* a dataset of exactly n pairs whose input tensor and target tensor both have
\* shape (n, 1)
IsDataset(ds, n) ==
    /\ Len(ds) = n
    /\ \A i \in 1..Len(ds) : Len(ds[i]) = 2 /\ Len(ds[i][1]) = 1 /\ Len(ds[i][2]) = 1
    /\ Shape(Tensors(ds)[1]) = <<n, 1>>
    /\ Shape(Tensors(ds)[2]) = Shape(Tensors(ds)[1])

\* C11: for every n >= 1 both generators return a dataset of exactly n
\* (input, target) pairs whose input and target tensors have the same shape
\* (n, 1), the datasets of the program are such datasets, and no step of train
\* or validate changes a pair of a dataset or the order of its pairs.
C11_DatasetShapeImmutable ==
    /\ [](/\ (calls = 0 =>
                \A n \in 1..MaxN, s \in Seeds :
                    /\ IsDataset(linear_function_dataset(A_TRUE, B_TRUE, n, s), n)
                    /\ IsDataset(nonlinear_function_dataset(n, s), n))
          /\ Len(train_ds) >= 1
          /\ IsDataset(train_ds, Len(train_ds))
          /\ IsDataset(valid_ds, Len(valid_ds)))
    /\ [][train_ds' = train_ds /\ valid_ds' = valid_ds]_vars

\* the second epoch of the loop has trained on, and validated with, datasets
\* of several pairs, and the parameters have moved
C11_Witness ==
    /\ pc = "v_ret"
    /\ caller = "loop"
    /\ epoch = 2
    /\ Len(train_ds) >= 2
    /\ params # entry.params \/ lr = 0
    /\ train_ds = nonlinear_function_dataset(Len(train_ds), 0)
    /\ IsDataset(train_ds, Len(train_ds))

(* C12 *)
\* the mean, as printed, of the loss of the current parameters over the
\* batches b of the dataset ds
MeanLossOver(ds, b) ==
    Fmt2(DSum([j \in 1..Len(b) |->
                 MSELoss(Forward(params, BatchX(ds, b[j])), BatchY(ds, b[j]))]),
         Len(b))

\* C12: when validate returns, the average loss it reported is the mean of the
\* loss over exactly the batches of the loader dl it was given, whatever other
\* loader exists in the program.
C12_ValidateUsesArgument ==
    pc = "v_ret" =>
        \E b \in Iter(arg_dl) :
            /\ b # <<>>
            /\ batches = b
            /\ last_valid = MeanLossOver(arg_dl.ds, b)

(* C13 *)
\* the steps of the current batch that are done: at each position of train,
\* how many batches have been stepped for and how many losses were added
C13_Progress ==
    /\ pc \in {"t_zero_grad", "t_forward", "t_backward", "t_step"} =>
          /\ batch_idx \in 1..Len(batches)
          /\ Len(stepped) = batch_idx - 1
          /\ Len(losses) = batch_idx - 1
          /\ batches_processed = batch_idx - 1
    /\ pc = "t_stats" =>
          /\ Len(stepped) = batch_idx
          /\ Len(losses) = batch_idx - 1
          /\ batches_processed = batch_idx - 1

\* one step of train: the positions follow each other in the fixed order
\* within a batch, the loss is computed from the parameters before the step
\* and is added unchanged after it, and only the optimizer step changes the
\* parameters
C13_Order ==
    /\ pc = "t_zero_grad" => pc' = "t_forward" /\ batch_idx' = batch_idx
    /\ pc = "t_forward" =>
          /\ pc' = "t_backward" /\ batch_idx' = batch_idx
          /\ loss' = MSELoss(Forward(params, CurX), CurY)
    /\ pc = "t_backward" =>
          pc' = "t_step" /\ batch_idx' = batch_idx /\ loss' = loss
    /\ pc = "t_step" =>
          pc' = "t_stats" /\ batch_idx' = batch_idx /\ loss' = loss
    /\ pc = "t_stats" =>
          /\ running_loss' = DAdd(running_loss, loss)
          /\ losses' = Append(losses, loss)
          /\ \/ pc' = "t_zero_grad" /\ batch_idx' = batch_idx + 1
             \/ pc' = "t_print" /\ batch_idx = Len(batches)
    /\ pc # "t_step" => params' = params
    /\ pc' = "t_zero_grad" /\ pc # "t_stats" => batch_idx' = 1

\* C13: within train the steps of a batch occur in the order zero_grad,
\* forward and loss, backward, optimizer step, loss accumulation, and batch i
\* is complete before batch i+1 begins; the loss added to running_loss is the
\* one computed with the parameters before the batch's optimizer step, and
\* the parameters at the start of the next batch, and of the next epoch's
\* first batch, are those the previous step left.
C13_StepOrder == []C13_Progress /\ [][C13_Order]_vars

\* in the second epoch of the loop that trains, the second batch has been
\* stepped for and its loss, computed before the step, is about to be added;
\* with the parameters the step left the loss would be another one
C13_Witness ==
    /\ pc = "t_stats"
    /\ caller = "train_loop"
    /\ epoch = 2
    /\ batch_idx = 2
    /\ params # entry.params
    /\ IsFinite(loss)
    /\ loss # MSELoss(Forward(params, CurX), CurY)
====
